---------------------------- MODULE Spec2Model ----------------------------
(***************************************************************************)
(* Vehicle telemetry simulator (backend/simulator/vehicle_simulator.py)    *)
(* and rule-based health analyzer (backend/analytics/health_analyzer.py).  *)
(*                                                                         *)
(* Units.  Every physical quantity is an integer number of hundredths of   *)
(* its unit (25.0 PSI = 2500, 100 km/h = 10000, 5.0 % = 500), so that the  *)
(* one-decimal rounding of a snapshot is a real conversion.  The odometer  *)
(* accumulator is kept in units of 1/360000 km, in which one tick adds     *)
(* exactly the speed in hundredths of km/h (speed / 3600 km).              *)
(*                                                                         *)
(* Time.  datetime.utcnow() is a counter, clock, read and advanced by      *)
(* every call.  uuid4 alert ids and the free-text alert message are not    *)
(* modelled.                                                               *)
(*                                                                         *)
(* Scheduling.  asyncio is cooperative: a coroutine runs without           *)
(* interruption between two awaits.  start() holds no await, stop() holds  *)
(* one (await self._task), the loop holds one (await asyncio.sleep(1)).    *)
(* Each action below is one such uninterrupted run.  Requests arrive at    *)
(* any time, so start() and stop() calls, the steps of the loop tasks and  *)
(* the resumption of a suspended stop() interleave in every order that     *)
(* respects their guards (a cancelled task ends before the stop() that     *)
(* awaits it resumes).                                                     *)
(***************************************************************************)
EXTENDS Integers, Sequences, FiniteSets, TLC

VARIABLES
    running,      \* VehicleSimulator._running
    tick_count,   \* VehicleSimulator._tick_count
    task,         \* VehicleSimulator._task: a task id, or None
    phys,         \* the simulation state variables _speed .. _speed_direction
    store,        \* the DataStore singleton
    taskState,    \* event loop: every _simulation_loop task's position
    cancelReq,    \* event loop: tasks on which cancel() was called
    stopWait,     \* stop() calls suspended at "await self._task", by task id
    clock,        \* number of datetime.utcnow() readings so far
    ret,          \* the last value returned by start() or stop()
    telemetry,    \* the snapshot last generated (the loop's local)
    analysis,     \* the list last returned by analyze (the loop's new_alerts)
    run_ticks,    \* history: loop iterations since the last effective start()
    read,         \* the last response of a read endpoint (GET route)
    app,          \* the application: "serving", or "shutdown" once shutdown_event ran
    maps,         \* TraceabilityMapper._maps of the singleton _mapper
    added         \* history: the arguments of the last add_mapping call

vars == <<running, tick_count, task, phys, store, taskState, cancelReq,
          stopWait, clock, ret, telemetry, analysis, run_ticks, read, app, maps,
          added>>

-----------------------------------------------------------------------------
(* Bounds of the model *)

MaxTasks == 3
MaxClock == 5
MaxSpeedHist == 11
MaxBatHist == 3
MaxGenTicks == 2

-----------------------------------------------------------------------------
(* Program constants, in hundredths *)

None == 0
TIRE_THRESHOLD == 2500
BATTERY_DROP_THRESHOLD == 500
BATTERY_MIN_HISTORY == 2
SPEED_THRESHOLD == 10000
SPEED_WINDOW == 10
SPEED_MIN == 0
SPEED_MAX == 14000
SOC_MIN == 500
SOC_MAX == 10000
TIRE_MIN == 1500
TIRE_MAX == 4000
PLATEAU_PERIOD == 50
PLATEAU_LENGTH == 15
PLATEAU_WARMUP == 20
SOC_LOW == 2000
SOC_FAIR == 5000
ODOMETER_INIT == 1500000
ODOMETER_UNITS_PER_TENTH_KM == 36000

Max(a, b) == IF a >= b THEN a ELSE b
Min(a, b) == IF a <= b THEN a ELSE b

(* Python's round(x, 1) on a non-negative value given in hundredths: the   *)
(* nearest multiple of 10, a tie going to the even tenth.                  *)
Round1(x) ==
    LET q == x \div 10
        r == x % 10
    IN  IF r < 5 THEN 10 * q
        ELSE IF r > 5 THEN 10 * (q + 1)
        ELSE IF q % 2 = 0 THEN 10 * q ELSE 10 * (q + 1)

(* round(15000.0 + acc / 360000, 1) in hundredths of km, acc in 1/360000 km *)
RoundOdometer(acc) ==
    LET q == acc \div ODOMETER_UNITS_PER_TENTH_KM
        r == acc % ODOMETER_UNITS_PER_TENTH_KM
        half == ODOMETER_UNITS_PER_TENTH_KM \div 2
        up == IF r > half THEN 1
              ELSE IF r < half THEN 0
              ELSE IF q % 2 = 0 THEN 0 ELSE 1
    IN  ODOMETER_INIT + 10 * (q + up)


-----------------------------------------------------------------------------
(* VehicleSimulator.__init__ *)

InitPhys ==
    [speed |-> 0, battery_soc |-> 9500, battery_voltage |-> 40000,
     battery_temp |-> 2500, tire_fl |-> 3200, tire_fr |-> 3150,
     tire_rl |-> 3180, tire_rr |-> 3220, odometer |-> 0,
     speed_direction |-> 1]

(***************************************************************************)
(* One record of the random draws of one _generate_telemetry call, in the  *)
(* order the code draws them.  The draws of a branch not taken are unused. *)
(*   flip        random.random() < 0.05                                    *)
(*   speed_delta random.uniform(1.0, 5.0)       in 100..500                *)
(*   plateau     random.uniform(105, 130)       in 10500..13000            *)
(*   drain       random.uniform(0.05, 0.2)      in 5..20                   *)
(*   rapid       random.random() < 0.02                                    *)
(*   rapid_drop  random.uniform(5.0, 8.0)       in 500..800                *)
(*   temp        random.uniform(-2, 5)          in -200..500               *)
(*   noise_xx    random.uniform(-0.1, 0.1)      in -10..10                 *)
(*   blowout     random.random() < 0.01                                    *)
(*   tire_choice random.choice(["fl", "fr", "rl", "rr"])                   *)
(*   drop        random.uniform(8, 15)          in 800..1500               *)
(***************************************************************************)
DrawOk(d) ==
    /\ d.flip \in BOOLEAN
    /\ d.speed_delta \in 100..500
    /\ d.plateau \in 10500..13000
    /\ d.drain \in 5..20
    /\ d.rapid \in BOOLEAN
    /\ d.rapid_drop \in 500..800
    /\ d.temp \in -200..500
    /\ d.noise_fl \in -10..10 /\ d.noise_fr \in -10..10
    /\ d.noise_rl \in -10..10 /\ d.noise_rr \in -10..10
    /\ d.blowout \in BOOLEAN
    /\ d.tire_choice \in {"fl", "fr", "rl", "rr"}
    /\ d.drop \in 800..1500

HealthStatus(soc) ==
    IF soc < SOC_LOW THEN "Low"
    ELSE IF soc < SOC_FAIR THEN "Fair"
    ELSE "Good"

(* "min(140, ...)" without the "max(0, ...)" around it *)
ClampSpeedNoFloor(x) == Min(SPEED_MAX, x)

ClampSpeed(x) == Max(SPEED_MIN, Min(SPEED_MAX, x))
(* A battery that is recharged to full when it reaches the lower clamp *)
ClampSocRecharge(x) == IF x <= SOC_MIN THEN SOC_MAX ELSE Min(SOC_MAX, x)

ClampSoc(x) == Max(SOC_MIN, Min(SOC_MAX, x))
ClampTire(x) == Max(TIRE_MIN, Min(TIRE_MAX, x))

(* The plateau without its warm-up condition "tick_count > 20" *)
InPlateauNoWarmup(tc) == tc % PLATEAU_PERIOD < PLATEAU_LENGTH

(* The plateau with a warm-up ten times as long *)
InPlateauLate(tc) ==
    tc % PLATEAU_PERIOD < PLATEAU_LENGTH /\ tc > 10 * PLATEAU_WARMUP

InPlateau(tc) == tc % PLATEAU_PERIOD < PLATEAU_LENGTH /\ tc > PLATEAU_WARMUP

(* The simulation state after one _generate_telemetry call at tick tc *)
NextPhys(p, tc, d) ==
    LET dir == IF d.flip THEN -p.speed_direction ELSE p.speed_direction
        walked == ClampSpeed(p.speed + d.speed_delta * dir)
        speed == IF InPlateau(tc) THEN d.plateau ELSE walked
        drained == p.battery_soc - d.drain
        dropped == IF d.rapid THEN drained - d.rapid_drop ELSE drained
        soc == ClampSoc(dropped)
        Blow(name) == IF d.blowout /\ d.tire_choice = name THEN d.drop ELSE 0
    IN  [speed |-> speed,
         battery_soc |-> soc,
         battery_voltage |-> 35000 + (soc * 50) \div 100,
         battery_temp |-> 2500 + d.temp,
         tire_fl |-> ClampTire(p.tire_fl + d.noise_fl - Blow("fl")),
         tire_fr |-> ClampTire(p.tire_fr + d.noise_fr - Blow("fr")),
         tire_rl |-> ClampTire(p.tire_rl + d.noise_rl - Blow("rl")),
         tire_rr |-> ClampTire(p.tire_rr + d.noise_rr - Blow("rr")),
         odometer |-> p.odometer + speed,
         speed_direction |-> dir]

(* The VehicleTelemetry built from the simulation state q, stamped ts.     *)
(* health_status is computed from the unrounded SoC.                       *)
Snapshot(q, ts) ==
    [timestamp |-> ts,
     speed |-> Round1(q.speed),
     soc |-> Round1(q.battery_soc),
     voltage |-> Round1(q.battery_voltage),
     temperature |-> Round1(q.battery_temp),
     health_status |-> HealthStatus(q.battery_soc),
     front_left |-> Round1(q.tire_fl),
     front_right |-> Round1(q.tire_fr),
     rear_left |-> Round1(q.tire_rl),
     rear_right |-> Round1(q.tire_rr),
     odometer |-> RoundOdometer(q.odometer),
     engine_status |-> "running"]

-----------------------------------------------------------------------------
(* HealthAnalyzer.  An Optional alert is a sequence of zero or one alert. *)

(* Every alert built with the severity of the tire rule *)
AlertAlwaysCritical(type, sev, sig, val, thr, ts) ==
    [alert_type |-> type, severity |-> "CRITICAL", signal |-> sig,
     value |-> val, threshold |-> thr, timestamp |-> ts]

Alert(type, sev, sig, val, thr, ts) ==
    [alert_type |-> type, severity |-> sev, signal |-> sig, value |-> val,
     threshold |-> thr, timestamp |-> ts]

(* tire_map, in the dict's insertion order *)
TireMap(t) ==
    << [signal |-> "tire_pressure_fl", pressure |-> t.front_left],
       [signal |-> "tire_pressure_fr", pressure |-> t.front_right],
       [signal |-> "tire_pressure_rl", pressure |-> t.rear_left],
       [signal |-> "tire_pressure_rr", pressure |-> t.rear_right] >>

(* "pressure <= 25.0" in place of "pressure < 25.0" *)
TireLowInclusive(pressure) == pressure <= TIRE_THRESHOLD

TireLow(pressure) == pressure < TIRE_THRESHOLD

CheckTirePressure(t) ==
    LET low == SelectSeq(TireMap(t), LAMBDA e : TireLow(e.pressure))
    IN  [i \in 1..Len(low) |->
            Alert("tire_pressure_low", "CRITICAL", low[i].signal,
                  low[i].pressure, "< 25 PSI", t.timestamp)]

(* history[-1] in place of history[0] *)
NewestSoc(history) == history[Len(history)].soc

OldestSoc(history) == history[1].soc

(* the guard dropped: history[0] is read whatever the length *)
BatteryHistoryNeverTooShort(history) == FALSE

BatteryHistoryTooShort(history) == Len(history) < BATTERY_MIN_HISTORY

CheckBatteryDegradation(t, st) ==
    LET history == st.battery_history
    IN  IF BatteryHistoryTooShort(history) THEN << >>
        ELSE LET oldest_soc == OldestSoc(history)
                 current_soc == t.soc
                 drop == oldest_soc - current_soc
             IN  IF drop > BATTERY_DROP_THRESHOLD
                 THEN << Alert("battery_degradation", "CRITICAL",
                               "battery_soc", current_soc,
                               "> 5% drop in monitoring window",
                               t.timestamp) >>
                 ELSE << >>

(* the whole history in place of history[-10:] *)
RecentWhole(history) == history

Recent(history) ==
    SubSeq(history, Len(history) - SPEED_WINDOW + 1, Len(history))

CheckHighSpeed(t, st) ==
    LET history == st.speed_history
    IN  IF Len(history) < SPEED_WINDOW THEN << >>
        ELSE LET recent == Recent(history)
                 all_high == \A i \in 1..Len(recent) :
                                 recent[i].speed > SPEED_THRESHOLD
             IN  IF all_high
                 THEN << Alert("high_speed_stress", "WARNING", "speed",
                               t.speed,
                               "> 100 km/h sustained for 10+ seconds",
                               t.timestamp) >>
                 ELSE << >>

(* the rules chained with "elif": the first rule that fires ends the call *)
AnalyzeFirstMatch(t, st) ==
    IF CheckTirePressure(t) # << >> THEN CheckTirePressure(t)
    ELSE IF CheckBatteryDegradation(t, st) # << >>
         THEN CheckBatteryDegradation(t, st)
         ELSE CheckHighSpeed(t, st)

Analyze(t, st) ==
    CheckTirePressure(t) \o CheckBatteryDegradation(t, st)
        \o CheckHighSpeed(t, st)

(* Exceptions.  list[i] with i >= 0 raises IndexError when i is not below  *)
(* the length.  The only subscript of a list that analyze evaluates is     *)
(* history[0] in _check_battery_degradation; the slice history[-10:], the  *)
(* attribute reads and the comparisons of numbers raise nothing.           *)
RaisesIndexError(list, i) == i >= Len(list)

AnalyzeRaises(t, st) ==
    /\ ~BatteryHistoryTooShort(st.battery_history)
    /\ RaisesIndexError(st.battery_history, 0)

(* What a call of analyze leaves with its caller: the returned list, or    *)
(* the exception                                                           *)
NotAnalyzed == [done |-> FALSE, raised |-> FALSE, alerts |-> << >>]

AnalyzeOutcome(t, st) ==
    IF AnalyzeRaises(t, st)
    THEN [done |-> TRUE, raised |-> TRUE, alerts |-> << >>]
    ELSE [done |-> TRUE, raised |-> FALSE, alerts |-> Analyze(t, st)]

-----------------------------------------------------------------------------
(* DataStore (backend/services/data_store.py) and the models                *)
(* (backend/models/telemetry.py) are not among the sources: they are       *)
(* modelled from the specification's data model and from their uses in     *)
(* the simulator, the analyzer and the tests.                              *)

SPEED_HISTORY_CAP == 10
BATTERY_HISTORY_CAP == 30
ALERT_LOG_CAP == 200

Message(text, ticks) == [text |-> text, ticks |-> ticks]

SimulationStatus(r, tc, st, msg) ==
    [running |-> r, tick_count |-> tc, start_time |-> st, message |-> msg]

DefaultTelemetry ==
    [timestamp |-> None, speed |-> 0, soc |-> 10000, voltage |-> 40000,
     temperature |-> 2500, health_status |-> "Good", front_left |-> 3200,
     front_right |-> 3200, rear_left |-> 3200, rear_right |-> 3200,
     odometer |-> 0, engine_status |-> "off"]

InitStore ==
    [telemetry |-> DefaultTelemetry,
     speed_history |-> << >>,
     battery_history |-> << >>,
     alerts |-> << >>,
     simulation |-> SimulationStatus(FALSE, 0, None,
                                     Message("Simulator idle", None))]

(* A bounded buffer: append, then drop the oldest entries beyond cap *)
(* A full buffer that drops the new entry and keeps the oldest ones *)
BoundedKeepsOldest(s, cap) == IF Len(s) > cap THEN SubSeq(s, 1, cap) ELSE s

Bounded(s, cap) ==
    IF Len(s) > cap THEN SubSeq(s, Len(s) - cap + 1, Len(s)) ELSE s

UpdateTelemetry(st, t) ==
    [st EXCEPT
        !.telemetry = t,
        !.speed_history =
            Bounded(Append(@, [timestamp |-> t.timestamp,
                               speed |-> t.speed]), SPEED_HISTORY_CAP),
        !.battery_history =
            Bounded(Append(@, [timestamp |-> t.timestamp, soc |-> t.soc]),
                    BATTERY_HISTORY_CAP)]

AddAlert(st, a) ==
    [st EXCEPT !.alerts = Bounded(Append(@, a), ALERT_LOG_CAP)]

(* The loop with a de-duplication: an alert is logged only if the log     *)
(* holds none of its type and signal                                       *)
AddAlertsOnce(st, as) ==
    [st EXCEPT !.alerts =
        Bounded(@ \o SelectSeq(as, LAMBDA a :
                    \A i \in 1..Len(st.alerts) :
                        \/ st.alerts[i].alert_type # a.alert_type
                        \/ st.alerts[i].signal # a.signal),
                ALERT_LOG_CAP)]

RECURSIVE AddAlerts(_, _)
AddAlerts(st, as) ==
    IF as = << >> THEN st ELSE AddAlerts(AddAlert(st, Head(as)), Tail(as))

-----------------------------------------------------------------------------
(* The event loop's tasks.  A task is "unborn" until create_task makes it, *)
(* "created" until its first step, "sleeping" at await asyncio.sleep(1),   *)
(* and "done" once its coroutine has returned or raised.                   *)

Tasks == 1..MaxTasks

Pending(i) == taskState[i] \in {"created", "sleeping"}

(* A loop that will run its next iteration if _running is then true *)
Live(i) == Pending(i) /\ i \notin cancelReq

LiveTasks == {i \in Tasks : Live(i)}

NewTask == CHOOSE i \in Tasks : taskState[i] = "unborn" /\
               \A j \in Tasks : taskState[j] = "unborn" => i <= j

(* No read endpoint has answered yet *)
NoRead == [endpoint |-> "none", body |-> None]

Returned(call, status) == [call |-> call, status |-> status]

-----------------------------------------------------------------------------
(* VehicleSimulator.start *)

StartAlreadyRunning ==
    /\ ret' = Returned("start",
           SimulationStatus(TRUE, tick_count, store.simulation.start_time,
                            Message("Simulator already running", None)))
    /\ UNCHANGED <<running, tick_count, task, phys, store, taskState,
                   cancelReq, stopWait, clock, telemetry, analysis,
                   run_ticks, read, app, maps,
          added>>

(* The same, but without the reset of _tick_count *)
StartNewRunKeepsTicks ==
    /\ clock < MaxClock
    /\ \E i \in Tasks : taskState[i] = "unborn"
    /\ running' = TRUE
    /\ clock' = clock + 1
    /\ store' = [store EXCEPT !.simulation =
           SimulationStatus(TRUE, 0, clock + 1,
                            Message("Simulator started", None))]
    /\ task' = NewTask
    /\ taskState' = [taskState EXCEPT ![NewTask] = "created"]
    /\ ret' = Returned("start", store'.simulation)
    /\ run_ticks' = 0
    /\ UNCHANGED <<tick_count, phys, cancelReq, stopWait, telemetry,
                   analysis, read, app, maps,
          added>>

(* A start() that re-initialises the simulation state as __init__ does *)
BeginRunFromInit ==
    /\ \E i \in Tasks : taskState[i] = "unborn"
    /\ running' = TRUE
    /\ tick_count' = 0
    /\ clock' = clock + 1
    /\ store' = [store EXCEPT !.simulation =
           SimulationStatus(TRUE, 0, clock + 1,
                            Message("Simulator started", None))]
    /\ task' = NewTask
    /\ taskState' = [taskState EXCEPT ![NewTask] = "created"]
    /\ ret' = Returned("start", store'.simulation)
    /\ run_ticks' = 0
    /\ phys' = InitPhys
    /\ UNCHANGED <<cancelReq, stopWait, telemetry, analysis, read, app, maps,
          added>>

(* The body of start() below its guard *)
BeginRun ==
    /\ \E i \in Tasks : taskState[i] = "unborn"
    /\ running' = TRUE
    /\ tick_count' = 0
    /\ clock' = clock + 1
    /\ store' = [store EXCEPT !.simulation =
           SimulationStatus(TRUE, 0, clock + 1,
                            Message("Simulator started", None))]
    /\ task' = NewTask
    /\ taskState' = [taskState EXCEPT ![NewTask] = "created"]
    /\ ret' = Returned("start", store'.simulation)
    /\ run_ticks' = 0
    /\ UNCHANGED <<phys, cancelReq, stopWait, telemetry, analysis, read, app, maps,
          added>>

StartNewRun == clock < MaxClock /\ BeginRun

(* start() without its "if self._running" guard *)
StartUnguarded == StartNewRun

Start == IF running THEN StartAlreadyRunning ELSE StartNewRun

-----------------------------------------------------------------------------
(* VehicleSimulator.stop, from its call to its return or to its await *)

StoppedStatus ==
    SimulationStatus(FALSE, tick_count, None,
                     Message("Simulator stopped after", tick_count))

StopNotRunning ==
    /\ ret' = Returned("stop",
           SimulationStatus(FALSE, tick_count, None,
                            Message("Simulator not running", None)))
    /\ UNCHANGED <<running, tick_count, task, phys, store, taskState,
                   cancelReq, stopWait, clock, telemetry, analysis,
                   run_ticks, read, app, maps,
          added>>

StopRunning ==
    /\ running' = FALSE
    /\ IF task # None /\ Pending(task)
       THEN \* cancel(), then suspend until the task is done
            /\ cancelReq' = cancelReq \cup {task}
            /\ stopWait' = stopWait \cup {task}
            /\ UNCHANGED <<task, store, ret>>
       ELSE \* no task, or a task already done: nothing to wait for
            /\ task' = None
            /\ store' = [store EXCEPT !.simulation = StoppedStatus]
            /\ ret' = Returned("stop", StoppedStatus)
            /\ UNCHANGED <<cancelReq, stopWait>>
    /\ UNCHANGED <<tick_count, phys, taskState, clock, telemetry, analysis,
                   run_ticks, read, app, maps,
          added>>

(* stop() without its "if not self._running" guard *)
StopUnguarded == StopRunning

Stop == IF ~running THEN StopNotRunning ELSE StopRunning

(* stop() resumes after "await self._task": the awaited task is done *)
StopResume(k) ==
    /\ k \in stopWait
    /\ taskState[k] = "done"
    /\ stopWait' = stopWait \ {k}
    /\ task' = None
    /\ store' = [store EXCEPT !.simulation = StoppedStatus]
    /\ ret' = Returned("stop", StoppedStatus)
    /\ UNCHANGED <<running, tick_count, phys, taskState, cancelReq, clock,
                   telemetry, analysis, run_ticks, read, app, maps,
          added>>

-----------------------------------------------------------------------------
(* VehicleSimulator._simulation_loop *)

(* An iteration cut short after update_telemetry, as by an await placed   *)
(* before the analysis at which the task is cancelled                      *)
TickCutAfterUpdate(d) ==
    LET tc == tick_count + 1
        q == NextPhys(phys, tc, d)
        t == Snapshot(q, clock + 1)
        updated == UpdateTelemetry(store, t)
    IN  /\ DrawOk(d)
        /\ tick_count' = tc
        /\ clock' = clock + 1
        /\ phys' = q
        /\ telemetry' = t
        /\ analysis' = AnalyzeOutcome(t, updated)
        /\ store' = updated
        /\ run_ticks' = run_ticks + 1

(* An iteration that analyses the snapshot before storing it *)
TickAnalyzeFirst(d) ==
    LET tc == tick_count + 1
        q == NextPhys(phys, tc, d)
        t == Snapshot(q, clock + 1)
        outcome == AnalyzeOutcome(t, store)
        updated == UpdateTelemetry(store, t)
        logged == AddAlerts(updated, outcome.alerts)
    IN  /\ DrawOk(d)
        /\ tick_count' = tc
        /\ clock' = clock + 1
        /\ phys' = q
        /\ telemetry' = t
        /\ analysis' = outcome
        /\ store' = IF outcome.raised
                    THEN store
                    ELSE [logged EXCEPT !.simulation.tick_count = tc]
        /\ run_ticks' = run_ticks + 1

(* One iteration of the loop body, up to the sleep, with the draws d *)
Tick(d) ==
    LET tc == tick_count + 1
        q == NextPhys(phys, tc, d)
        t == Snapshot(q, clock + 1)
        updated == UpdateTelemetry(store, t)
        outcome == AnalyzeOutcome(t, updated)
        logged == AddAlerts(updated, outcome.alerts)
    IN  /\ DrawOk(d)
        /\ tick_count' = tc
        /\ clock' = clock + 1
        /\ phys' = q
        /\ telemetry' = t
        /\ analysis' = outcome
        /\ store' = IF outcome.raised
                    THEN updated   \* the exception leaves the loop body
                    ELSE [logged EXCEPT !.simulation.tick_count = tc]
        /\ run_ticks' = run_ticks + 1

(* The task's first step, or its wake-up from the sleep: the while test *)
LoopStep(i, d) ==
    /\ Live(i)
    /\ IF running
       THEN /\ Tick(d)
            /\ taskState' = [taskState EXCEPT ![i] =
                   IF analysis'.raised THEN "done" ELSE "sleeping"]
       ELSE /\ taskState' = [taskState EXCEPT ![i] = "done"]
            /\ UNCHANGED <<tick_count, clock, phys, telemetry, analysis,
                           store, run_ticks>>
    /\ UNCHANGED <<running, task, cancelReq, stopWait, ret, read, app, maps,
          added>>

(* CancelledError is raised in the task at its await (or before its first  *)
(* step) and propagates out of the loop                                    *)
(* The cancellation landing after "self._tick_count += 1", as with an     *)
(* await between the increment and the generation of the snapshot          *)
LoopCancelledAfterIncrement(i) ==
    /\ Pending(i)
    /\ i \in cancelReq
    /\ taskState' = [taskState EXCEPT ![i] = "done"]
    /\ tick_count' = tick_count + 1
    /\ UNCHANGED <<running, task, phys, store, cancelReq, stopWait, clock,
                   ret, telemetry, analysis, run_ticks, read, app, maps,
          added>>

LoopCancelled(i) ==
    /\ Pending(i)
    /\ i \in cancelReq
    /\ taskState' = [taskState EXCEPT ![i] = "done"]
    /\ UNCHANGED <<running, tick_count, task, phys, store, cancelReq,
                   stopWait, clock, ret, telemetry, analysis, run_ticks,
                   read, app, maps,
          added>>

-----------------------------------------------------------------------------
(***************************************************************************)
(* TraceabilityMapper.  The strings that add_mapping computes from a       *)
(* signal name are sequences of one-character strings, so that replace()   *)
(* and title() are computed as Python computes them.                       *)
(***************************************************************************)
Lowers ==
    <<"a", "b", "c", "d", "e", "f", "g", "h", "i", "j", "k", "l", "m",
    "n", "o", "p", "q", "r", "s", "t", "u", "v", "w", "x", "y", "z">>

Uppers ==
    <<"A", "B", "C", "D", "E", "F", "G", "H", "I", "J", "K", "L", "M",
    "N", "O", "P", "Q", "R", "S", "T", "U", "V", "W", "X", "Y", "Z">>

IsLower(c) == \E i \in 1..Len(Lowers) : Lowers[i] = c
IsUpper(c) == \E i \in 1..Len(Uppers) : Uppers[i] = c
IsCased(c) == IsLower(c) \/ IsUpper(c)

Upper(c) ==
    IF IsLower(c) THEN Uppers[CHOOSE i \in 1..Len(Lowers) : Lowers[i] = c]
    ELSE c

Lower(c) ==
    IF IsUpper(c) THEN Lowers[CHOOSE i \in 1..Len(Uppers) : Uppers[i] = c]
    ELSE c

(* s.replace(old, new) for one-character old and new *)
Replace(s, old, new) ==
    [i \in 1..Len(s) |-> IF s[i] = old THEN new ELSE s[i]]

(* s.replace(old, '') for a one-character old *)
Remove(s, old) == SelectSeq(s, LAMBDA c : c # old)

(* s.title(): a cased character is upper case after an uncased one (or at *)
(* the start) and lower case after a cased one                             *)
Title(s) ==
    [i \in 1..Len(s) |->
        IF i = 1 \/ ~IsCased(s[i - 1]) THEN Upper(s[i]) ELSE Lower(s[i])]

SPEED ==
    <<"s", "p", "e", "e", "d">>

BATTERY_SOC ==
    <<"b", "a", "t", "t", "e", "r", "y", "_", "s", "o", "c">>

TIRE_PRESSURE ==
    <<"t", "i", "r", "e", "_", "p", "r", "e", "s", "s", "u", "r", "e">>

SPEED_GAUGE ==
    <<"S", "p", "e", "e", "d", "G", "a", "u", "g", "e">>

BATTERY_INDICATOR ==
    <<"B", "a", "t", "t", "e", "r", "y", "I", "n", "d", "i", "c", "a",
    "t", "o", "r">>

TIRE_PRESSURE_CARD ==
    <<"T", "i", "r", "e", "P", "r", "e", "s", "s", "u", "r", "e", "C",
    "a", "r", "d">>

ALERT_BANNER ==
    <<"A", "l", "e", "r", "t", "B", "a", "n", "n", "e", "r">>

CARD ==
    <<"C", "a", "r", "d">>

GET_VEHICLE ==
    <<"G", "E", "T", " ", "/", "v", "e", "h", "i", "c", "l", "e", "/">>

AUTO_RULE ==
    <<"A", "u", "t", "o", "-", "g", "e", "n", "e", "r", "a", "t", "e",
    "d", " ", "r", "u", "l", "e", " ", "f", "o", "r", " ">>

GET_SPEED ==
    <<"G", "E", "T", " ", "/", "v", "e", "h", "i", "c", "l", "e", "/",
    "s", "p", "e", "e", "d">>

GET_BATTERY ==
    <<"G", "E", "T", " ", "/", "v", "e", "h", "i", "c", "l", "e", "/",
    "b", "a", "t", "t", "e", "r", "y">>

GET_TIRE_PRESSURE ==
    <<"G", "E", "T", " ", "/", "v", "e", "h", "i", "c", "l", "e", "/",
    "t", "i", "r", "e", "-", "p", "r", "e", "s", "s", "u", "r", "e">>

(* _signal_to_widget *)
SignalToWidget(signal) ==
    IF signal = SPEED THEN SPEED_GAUGE
    ELSE IF signal = BATTERY_SOC THEN BATTERY_INDICATOR
    ELSE IF signal = TIRE_PRESSURE THEN TIRE_PRESSURE_CARD
    ELSE Remove(Title(signal), "_") \o CARD

(* The default system mapping of _add_default_mapping *)
DefaultMapping ==
    [requirement |-> "Monitor vehicle speed, battery SoC, and tire pressure and generate alerts on abnormal behavior.",
     extracted_signals |->
        << [signal |-> SPEED, api_endpoint |-> GET_SPEED,
            ui_component |-> SPEED_GAUGE,
            analytics_rule |-> "speed > 100 km/h sustained -> High Speed Stress Warning"],
           [signal |-> BATTERY_SOC, api_endpoint |-> GET_BATTERY,
            ui_component |-> BATTERY_INDICATOR,
            analytics_rule |-> "SoC drop > 5% rapidly -> Battery Degradation Alert"],
           [signal |-> TIRE_PRESSURE, api_endpoint |-> GET_TIRE_PRESSURE,
            ui_component |-> TIRE_PRESSURE_CARD,
            analytics_rule |-> "pressure < 25 PSI -> Possible Tire Failure"] >>,
     generated_services |->
        <<"health_monitoring", "alert_service", "simulation_service">>,
     generated_apis |->
        << GET_SPEED, GET_BATTERY, GET_TIRE_PRESSURE,
           "GET /vehicle/all", "GET /vehicle/alerts",
           "POST /vehicle/simulate/start", "POST /vehicle/simulate/stop",
           "GET /traceability/map", "GET /config/signals" >>,
     ui_components |->
        << SPEED_GAUGE, BATTERY_INDICATOR, TIRE_PRESSURE_CARD,
           ALERT_BANNER >>]

(* _maps after __init__ *)
InitMaps == << DefaultMapping >>

(* blueprint.get(key, []) : a blueprint is a function from the keys it has *)
BlueprintGet(blueprint, key) ==
    IF key \in DOMAIN blueprint THEN blueprint[key] ELSE << >>

(* The entry built in the loop of add_mapping for one signal *)
SignalEntry(signal) ==
    [signal |-> signal,
     api_endpoint |-> GET_VEHICLE \o Replace(signal, "_", "-"),
     ui_component |-> SignalToWidget(signal),
     analytics_rule |-> AUTO_RULE \o signal]

(* The mapping that add_mapping builds from its arguments *)
NewMapping(requirement, blueprint) ==
    LET signals == BlueprintGet(blueprint, "signals")
        entries == [i \in 1..Len(signals) |-> SignalEntry(signals[i])]
    IN  [requirement |-> requirement,
         extracted_signals |-> entries,
         generated_services |-> BlueprintGet(blueprint, "services"),
         generated_apis |->
             [i \in 1..Len(entries) |-> entries[i].api_endpoint],
         ui_components |-> BlueprintGet(blueprint, "ui_components")]

(* get_latest: "self._maps[-1] if self._maps else None" *)
GetLatest(m) == IF m # << >> THEN m[Len(m)] ELSE None

(* No add_mapping call has been made yet *)
NoCall == [requirement |-> None, blueprint |-> None]

-----------------------------------------------------------------------------
(* The simulator from its construction, under start() and stop() requests *)

Calm ==
    [flip |-> FALSE, speed_delta |-> 500, plateau |-> 13000, drain |-> 5,
     rapid |-> FALSE, rapid_drop |-> 500, temp |-> 0,
     noise_fl |-> 10, noise_fr |-> 10, noise_rl |-> 10, noise_rr |-> 10,
     blowout |-> FALSE, tire_choice |-> "fl", drop |-> 800]

Faulty ==
    [flip |-> TRUE, speed_delta |-> 100, plateau |-> 10500, drain |-> 20,
     rapid |-> TRUE, rapid_drop |-> 800, temp |-> 500,
     noise_fl |-> -10, noise_fr |-> -10, noise_rl |-> -10, noise_rr |-> -10,
     blowout |-> TRUE, tire_choice |-> "fl", drop |-> 1500]

RunDraws == {Calm, Faulty}

Init ==
    /\ running = FALSE
    /\ tick_count = 0
    /\ task = None
    /\ phys = InitPhys
    /\ store = InitStore
    /\ taskState = [i \in Tasks |-> "unborn"]
    /\ cancelReq = {}
    /\ stopWait = {}
    /\ clock = 0
    /\ ret = Returned("none", InitStore.simulation)
    /\ telemetry = DefaultTelemetry
    /\ analysis = NotAnalyzed
    /\ run_ticks = 0
    /\ read = NoRead
    /\ app = "serving"
    /\ maps = InitMaps
    /\ added = NoCall

Next ==
    \/ Start
    \/ Stop
    \/ \E k \in Tasks : StopResume(k)
    \/ \E i \in Tasks : \E d \in RunDraws :
          (running => clock < MaxClock) /\ LoopStep(i, d)
    \/ \E i \in Tasks : LoopCancelled(i)

Spec == Init /\ [][Next]_vars

-----------------------------------------------------------------------------
(* Lifecycle properties *)

NonRetUnchanged ==
    UNCHANGED <<running, tick_count, task, phys, store, taskState, cancelReq,
                stopWait, clock, telemetry, analysis, run_ticks, read, app, maps,
          added>>

(* C6: a start() call on a Running simulator changes nothing (tick_count,  *)
(* the stored status with its start_time, the tasks) and returns a status  *)
(* with running = true, the current tick_count and the stored start_time.  *)
C6_StartWhileRunningIsNoop ==
    [][(running /\ Start) =>
            /\ NonRetUnchanged
            /\ ret'.call = "start"
            /\ ret'.status.running = TRUE
            /\ ret'.status.tick_count = tick_count
            /\ ret'.status.start_time = store.simulation.start_time]_vars

C6_Witness ==
    /\ ret.call = "start"
    /\ ret.status.message.text = "Simulator already running"
    /\ running
    /\ tick_count > 0

(* C7: a stop() call on a Stopped simulator returns a status with          *)
(* running = false and the message "Simulator not running", and changes    *)
(* neither tick_count, the stored status, the snapshot, the histories nor  *)
(* the alert log.                                                          *)
C7_StopWhileStoppedIsNoop ==
    [][(~running /\ Stop) =>
            /\ NonRetUnchanged
            /\ ret'.call = "stop"
            /\ ret'.status.running = FALSE
            /\ ret'.status.message.text = "Simulator not running"
            /\ ret'.status.tick_count = tick_count]_vars

C7_Witness ==
    /\ ret.call = "stop"
    /\ ret.status.message.text = "Simulator not running"
    /\ tick_count > 0
    /\ store.alerts # << >>

(* C8: a start() call on a Stopped simulator sets it Running, resets       *)
(* tick_count to 0, stores (and returns) a fresh status with               *)
(* running = true, tick_count = 0 and a start_time, and creates the loop   *)
(* task; the first loop iteration after it has tick_count = 1.             *)
C8_StartFromStopped ==
    /\ [][(~running /\ Start) =>
            /\ running'
            /\ tick_count' = 0
            /\ store'.simulation.running = TRUE
            /\ store'.simulation.tick_count = 0
            /\ store'.simulation.start_time # None
            /\ store'.simulation.start_time = clock'
            /\ store'.simulation.message.text = "Simulator started"
            /\ ret' = Returned("start", store'.simulation)
            /\ task' # None
            /\ taskState[task'] = "unborn"
            /\ taskState'[task'] = "created"
            /\ task' \notin cancelReq']_vars
    /\ [][(run_ticks = 0 /\ run_ticks' = 1) => tick_count' = 1]_vars

C8_Witness ==
    /\ running
    /\ store.simulation.running
    /\ store.simulation.start_time > 2
    /\ run_ticks = 1
    /\ tick_count = 1
    /\ store.simulation.tick_count = 1

(* C9: once a stop() call made on a Running simulator has returned, and    *)
(* until the next call returns, the simulator is Stopped: it is not        *)
(* running, no loop is alive to tick again, and the stored status has      *)
(* running = false with the final tick_count in its message.               *)
C9_StopReturnsStopped ==
    (ret.call = "stop" /\ ret.status.message.text = "Simulator stopped after")
        => /\ ~running
           /\ LiveTasks = {}
           /\ store.simulation.running = FALSE
           /\ store.simulation.message =
                  Message("Simulator stopped after", tick_count)

(* C10: at most one simulation loop is alive at any time. *)
C10_AtMostOneLoop == Cardinality(LiveTasks) <= 1

-----------------------------------------------------------------------------
(* HealthAnalyzer.analyze as a function of (telemetry, store): the inputs  *)
(* are drawn as a test draws them, a snapshot and a store whose history    *)
(* lists hold any entries, and analyze is called, any number of times.     *)

TireSamples == {2490, 2500}
SocHistorySamples == {8400, 9000}
SocSamples == {8400, 8500, 8600}
HighSpeed == 11000
SpeedSamples == {9000, 10000}

SeqsUpTo(S, n) == UNION {[1..k -> S] : k \in 0..n}

BatteryHistories ==
    {[i \in 1..Len(h) |-> [timestamp |-> i, soc |-> h[i]]] :
        h \in SeqsUpTo(SocHistorySamples, MaxBatHist)}

(* Speed histories of up to MaxSpeedHist entries, all above 100 km/h       *)
(* except at most one entry, at any position                               *)
SpeedHistories ==
    {[i \in 1..n |-> [timestamp |-> i, speed |-> HighSpeed]] :
        n \in 0..MaxSpeedHist}
    \cup
    UNION { {[i \in 1..n |-> [timestamp |-> i,
                              speed |-> IF i = j THEN v ELSE HighSpeed]] :
                j \in 1..n, v \in SpeedSamples} : n \in 1..MaxSpeedHist }

AnalyzeSnapshots ==
    {[DefaultTelemetry EXCEPT
         !.timestamp = MaxSpeedHist + MaxBatHist + 1,
         !.speed = 11500, !.soc = soc, !.engine_status = "running",
         !.front_left = fl, !.front_right = fr,
         !.rear_left = rl, !.rear_right = rr] :
        soc \in SocSamples, fl \in TireSamples, fr \in TireSamples,
        rl \in TireSamples, rr \in TireSamples}

(* Values outside the generator's ranges, below zero and above the         *)
(* maximum, in the snapshot and in the histories                           *)
OutOfRange ==
    { [speed |-> -500, soc |-> -100, tire |-> -100],
      [speed |-> 20000, soc |-> 15000, tire |-> 9000] }

OutOfRangeSnapshots ==
    {[DefaultTelemetry EXCEPT
         !.timestamp = MaxSpeedHist + MaxBatHist + 1,
         !.speed = v.speed, !.soc = v.soc, !.engine_status = "running",
         !.front_left = v.tire, !.front_right = v.tire,
         !.rear_left = v.tire, !.rear_right = v.tire] : v \in OutOfRange}

OutOfRangeBatteryHistories ==
    {[i \in 1..n |-> [timestamp |-> i,
                      soc |-> IF i = 1 THEN v.soc ELSE w.soc]] :
        n \in 1..BATTERY_MIN_HISTORY, v \in OutOfRange, w \in OutOfRange}

OutOfRangeSpeedHistories ==
    {[i \in 1..SPEED_WINDOW |-> [timestamp |-> i, speed |-> v.speed]] :
        v \in OutOfRange}

InitAnalyze ==
    /\ running = FALSE
    /\ tick_count = 0
    /\ task = None
    /\ phys = InitPhys
    /\ \E sh \in SpeedHistories \cup OutOfRangeSpeedHistories,
          bh \in BatteryHistories \cup OutOfRangeBatteryHistories :
          store = [InitStore EXCEPT !.speed_history = sh,
                                    !.battery_history = bh]
    /\ taskState = [i \in Tasks |-> "unborn"]
    /\ cancelReq = {}
    /\ stopWait = {}
    /\ clock = 0
    /\ ret = Returned("none", InitStore.simulation)
    /\ telemetry \in AnalyzeSnapshots \cup OutOfRangeSnapshots
    /\ analysis = NotAnalyzed
    /\ run_ticks = 0
    /\ read = NoRead
    /\ app = "serving"
    /\ maps = InitMaps
    /\ added = NoCall

(* analyze with a side effect: it logs the alerts it returns *)
AnalyzeCallLogs ==
    /\ analysis' = AnalyzeOutcome(telemetry, store)
    /\ store' = AddAlerts(store, analysis'.alerts)
    /\ UNCHANGED <<running, tick_count, task, phys, taskState, cancelReq,
                   stopWait, clock, ret, telemetry, run_ticks, read, app, maps,
          added>>

AnalyzeCall ==
    /\ analysis' = AnalyzeOutcome(telemetry, store)
    /\ UNCHANGED <<running, tick_count, task, phys, store, taskState,
                   cancelReq, stopWait, clock, ret, telemetry, run_ticks,
                   read, app, maps,
          added>>

NextAnalyze == AnalyzeCall

SpecAnalyze == InitAnalyze /\ [][NextAnalyze]_vars

-----------------------------------------------------------------------------
(* Analyzer properties *)

OfType(alerts, type) == SelectSeq(alerts, LAMBDA a : a.alert_type = type)

TireAlertsFor(alerts, sig) ==
    SelectSeq(alerts, LAMBDA a :
        a.alert_type = "tire_pressure_low" /\ a.signal = sig)

TirePositions ==
    {"tire_pressure_fl", "tire_pressure_fr", "tire_pressure_rl",
     "tire_pressure_rr"}

PressureAt(t, sig) ==
    CASE sig = "tire_pressure_fl" -> t.front_left
      [] sig = "tire_pressure_fr" -> t.front_right
      [] sig = "tire_pressure_rl" -> t.rear_left
      [] sig = "tire_pressure_rr" -> t.rear_right

TiresBelow(t) == {sig \in TirePositions : PressureAt(t, sig) < 2500}

R2Holds(t, st) ==
    /\ Len(st.battery_history) >= 2
    /\ st.battery_history[1].soc - t.soc > 500

R3Holds(st) ==
    /\ Len(st.speed_history) >= 10
    /\ \A i \in (Len(st.speed_history) - 9)..Len(st.speed_history) :
          st.speed_history[i].speed > 10000

(* C1: the call returns exactly one tire_pressure_low alert naming a       *)
(* position iff that tire's pressure is strictly below 25.0 (none at       *)
(* exactly 25.0), and as many tire alerts as there are tires below 25.0.   *)
C1_TireRule ==
    analysis.done =>
        /\ \A sig \in TirePositions :
              Len(TireAlertsFor(analysis.alerts, sig)) =
                  IF PressureAt(telemetry, sig) < 2500 THEN 1 ELSE 0
        /\ Len(OfType(analysis.alerts, "tire_pressure_low")) =
               Cardinality(TiresBelow(telemetry))

C1_Witness ==
    /\ analysis.done
    /\ telemetry.front_left = 2500
    /\ telemetry.rear_right < 2500
    /\ Len(TireAlertsFor(analysis.alerts, "tire_pressure_fl")) = 0
    /\ Len(TireAlertsFor(analysis.alerts, "tire_pressure_rr")) = 1

(* C2: the call returns exactly one battery_degradation alert iff the      *)
(* battery history holds at least 2 entries and its oldest entry's SoC     *)
(* minus the snapshot's SoC is strictly greater than 5.0; otherwise none.  *)
C2_BatteryRule ==
    analysis.done =>
        Len(OfType(analysis.alerts, "battery_degradation")) =
            IF R2Holds(telemetry, store) THEN 1 ELSE 0

C2_Witness ==
    /\ analysis.done
    /\ Len(store.battery_history) >= 2
    /\ store.battery_history[1].soc - telemetry.soc > 500
    /\ store.battery_history[Len(store.battery_history)].soc
           - telemetry.soc <= 500
    /\ Len(OfType(analysis.alerts, "battery_degradation")) = 1

(* C3: the call returns exactly one high_speed_stress alert iff the speed  *)
(* history holds at least 10 entries and each of its 10 most recent        *)
(* entries is strictly above 100; otherwise none.                          *)
C3_SpeedRule ==
    analysis.done =>
        Len(OfType(analysis.alerts, "high_speed_stress")) =
            IF R3Holds(store) THEN 1 ELSE 0

C3_Witness ==
    /\ analysis.done
    /\ Len(store.speed_history) > 10
    /\ store.speed_history[1].speed <= 10000
    /\ Len(OfType(analysis.alerts, "high_speed_stress")) = 1

(* C4: the call returns (tires below 25.0) + (1 if R2 holds) + (1 if R3    *)
(* holds) alerts, each rule's count being what that rule alone gives, and  *)
(* all three types whenever all three conditions hold.                     *)
C4_RulesIndependent ==
    analysis.done =>
        /\ Len(analysis.alerts) =
               Cardinality(TiresBelow(telemetry))
               + (IF R2Holds(telemetry, store) THEN 1 ELSE 0)
               + (IF R3Holds(store) THEN 1 ELSE 0)
        /\ Len(analysis.alerts) =
               Len(OfType(analysis.alerts, "tire_pressure_low"))
               + Len(OfType(analysis.alerts, "battery_degradation"))
               + Len(OfType(analysis.alerts, "high_speed_stress"))
        /\ (TiresBelow(telemetry) # {} /\ R2Holds(telemetry, store)
                /\ R3Holds(store))
           => \A type \in {"tire_pressure_low", "battery_degradation",
                           "high_speed_stress"} :
                  OfType(analysis.alerts, type) # << >>

C4_Witness ==
    /\ analysis.done
    /\ TiresBelow(telemetry) # {}
    /\ R2Holds(telemetry, store)
    /\ R3Holds(store)
    /\ Len(analysis.alerts) >= 3

-----------------------------------------------------------------------------
(* _generate_telemetry as a function of (simulation state, tick_count,     *)
(* draws): the simulation state and the tick count are drawn at and near   *)
(* the ends of their ranges, and the loop's first two statements           *)
(* (increment, generate) are run up to MaxGenTicks times.                  *)

GenSpeeds == {0, 13800}
GenSocs == {510, 2004, 9500}
GenTires ==
    { <<3200, 3150, 3180, 3220>>,
      <<1505, 1500, 2300, 3200>>,
      <<3995, 4000, 3200, 3200>> }
GenTicks == {0, 49, 63}

GenStates ==
    {[InitPhys EXCEPT !.speed = sp, !.speed_direction = dir,
                      !.battery_soc = soc,
                      !.battery_voltage = 35000 + (soc * 50) \div 100,
                      !.tire_fl = tp[1], !.tire_fr = tp[2],
                      !.tire_rl = tp[3], !.tire_rr = tp[4]] :
        sp \in GenSpeeds, dir \in {1, -1}, soc \in GenSocs, tp \in GenTires}

(* Draws at the ends of their ranges, one subsystem varied at a time *)
GenDraws ==
    {[Calm EXCEPT !.flip = f, !.speed_delta = sd, !.plateau = pl] :
        f \in BOOLEAN, sd \in {100, 500}, pl \in {10500, 13000}}
    \cup
    {[Calm EXCEPT !.drain = dr, !.rapid = r, !.rapid_drop = rd,
                  !.temp = tm] :
        dr \in {5, 20}, r \in BOOLEAN, rd \in {500, 800}, tm \in {-200, 500}}
    \cup
    {[Calm EXCEPT !.noise_fl = n, !.noise_fr = n, !.noise_rl = -n,
                  !.noise_rr = -n, !.blowout = b, !.tire_choice = c,
                  !.drop = dp] :
        n \in {-10, 10}, b \in BOOLEAN, c \in {"fl", "rr"},
        dp \in {800, 1500}}
    \cup {Faulty}

InitGen ==
    /\ running = FALSE
    /\ tick_count \in GenTicks
    /\ task = None
    /\ phys \in GenStates
    /\ store = InitStore
    /\ taskState = [i \in Tasks |-> "unborn"]
    /\ cancelReq = {}
    /\ stopWait = {}
    /\ clock = 0
    /\ ret = Returned("none", InitStore.simulation)
    /\ telemetry = DefaultTelemetry
    /\ analysis = NotAnalyzed
    /\ run_ticks = 0
    /\ read = NoRead
    /\ app = "serving"
    /\ maps = InitMaps
    /\ added = NoCall

GenerateCall(d) ==
    /\ DrawOk(d)
    /\ run_ticks < MaxGenTicks
    /\ tick_count' = tick_count + 1
    /\ phys' = NextPhys(phys, tick_count + 1, d)
    /\ telemetry' = Snapshot(phys', clock + 1)
    /\ clock' = clock + 1
    /\ run_ticks' = run_ticks + 1
    /\ UNCHANGED <<running, task, store, taskState, cancelReq, stopWait,
                   ret, analysis, read, app, maps,
          added>>

NextGen == \E d \in GenDraws : GenerateCall(d)

SpecGen == InitGen /\ [][NextGen]_vars

-----------------------------------------------------------------------------
(* Generator properties *)

Emitted(t) == t.timestamp # None

TiresOf(t) == {t.front_left, t.front_right, t.rear_left, t.rear_right}

(* C5: in every emitted snapshot speed is within [0, 140], SoC within      *)
(* [5, 100] and each of the four tire pressures within [15, 40].           *)
C5_ClampInvariant ==
    Emitted(telemetry) =>
        /\ telemetry.speed >= 0 /\ telemetry.speed <= 14000
        /\ telemetry.soc >= 500 /\ telemetry.soc <= 10000
        /\ \A p \in TiresOf(telemetry) : p >= 1500 /\ p <= 4000

(* A snapshot in which the draws alone would have left every range: speed  *)
(* above 140, SoC below 5 and a blown tire below 15                        *)
C5_Witness ==
    /\ Emitted(telemetry)
    /\ run_ticks = 2
    /\ telemetry.speed = 14000
    /\ telemetry.soc = 500
    /\ phys.battery_soc = 500
    /\ telemetry.front_left = 1500

-----------------------------------------------------------------------------
(* Tick atomicity.  Every state of Spec is a point at which another        *)
(* coroutine (a request handler) can run: the loop tasks are at their      *)
(* sleep, before their first step or done, and a stop() is at its await or *)
(* has returned.                                                           *)

LastOf(s) == s[Len(s)]

AlertsStamped(log, ts) == SelectSeq(log, LAMBDA a : a.timestamp = ts)

Suffix(s, n) == SubSeq(s, Len(s) - n + 1, Len(s))

(* C11: at every point where a reader can run, the stored snapshot, the    *)
(* newest entry of each history buffer, the alerts logged for that         *)
(* snapshot and the tick counter of the stored status all belong to the    *)
(* same, completed, tick: the snapshot's history entries and all of its    *)
(* alerts are in the store, nothing of a later tick is, and this also      *)
(* when a loop task has been cancelled.                                    *)
C11_TickAtomic ==
    /\ store.telemetry = telemetry
    /\ store.simulation.tick_count = tick_count
    /\ ~analysis.raised
    /\ IF Emitted(telemetry)
       THEN /\ analysis.done
            /\ store.speed_history # << >>
            /\ LastOf(store.speed_history) =
                   [timestamp |-> telemetry.timestamp,
                    speed |-> telemetry.speed]
            /\ store.battery_history # << >>
            /\ LastOf(store.battery_history) =
                   [timestamp |-> telemetry.timestamp,
                    soc |-> telemetry.soc]
            /\ Len(analysis.alerts) <= Len(store.alerts)
            /\ Suffix(store.alerts, Len(analysis.alerts)) = analysis.alerts
            /\ AlertsStamped(store.alerts, telemetry.timestamp) =
                   analysis.alerts
            /\ \A i \in 1..Len(store.alerts) :
                   store.alerts[i].timestamp <= telemetry.timestamp
       ELSE /\ store.speed_history = << >>
            /\ store.battery_history = << >>
            /\ store.alerts = << >>

(* A stop() is suspended at its await, the loop task it cancelled has      *)
(* ended, and the store holds the alerts of the last tick and of earlier   *)
(* ones                                                                    *)
C11_Witness ==
    /\ \E k \in stopWait : taskState[k] = "done"
    /\ tick_count >= 2
    /\ analysis.alerts # << >>
    /\ Len(store.alerts) > Len(analysis.alerts)
    /\ store.simulation.tick_count = tick_count

-----------------------------------------------------------------------------
(* Alerts across the ticks of the loop *)

(* C12: no de-duplication.  On every tick the alerts appended to the log   *)
(* are one tire_pressure_low alert for each tire below 25.0 in the tick's  *)
(* snapshot, one battery_degradation alert iff the battery rule holds on   *)
(* the store as updated by the tick and one high_speed_stress alert iff    *)
(* the speed rule does, whatever the log already holds; the earlier alerts *)
(* stay in front of them.  A condition that persists over k ticks so       *)
(* yields k alerts.                                                        *)
C12_NoDedup ==
    [][telemetry' # telemetry =>
        /\ Len(store'.alerts) >= Len(store.alerts)
        /\ SubSeq(store'.alerts, 1, Len(store.alerts)) = store.alerts
        /\ LET appended == SubSeq(store'.alerts, Len(store.alerts) + 1,
                                  Len(store'.alerts))
           IN  /\ \A sig \in TirePositions :
                      Len(TireAlertsFor(appended, sig)) =
                          IF PressureAt(telemetry', sig) < 2500
                          THEN 1 ELSE 0
               /\ Len(OfType(appended, "battery_degradation")) =
                      IF R2Holds(telemetry', store') THEN 1 ELSE 0
               /\ Len(OfType(appended, "high_speed_stress")) =
                      IF R3Holds(store') THEN 1 ELSE 0
               /\ Len(appended) =
                      Len(OfType(appended, "tire_pressure_low"))
                      + Len(OfType(appended, "battery_degradation"))
                      + Len(OfType(appended, "high_speed_stress"))]_vars

(* Three ticks of one run on each of which the front-left tire is low and  *)
(* two on which the battery rule holds: three and two alerts in the log    *)
C12_Witness ==
    /\ run_ticks = 3
    /\ tick_count = 3
    /\ Len(store.battery_history) = 3
    /\ Len(TireAlertsFor(store.alerts, "tire_pressure_fl")) = 3
    /\ Len(OfType(store.alerts, "battery_degradation")) = 2

-----------------------------------------------------------------------------
(* C13: every alert returned by analyze carries the timestamp of the       *)
(* snapshot it was given, and its severity is fixed by its rule:           *)
(* tire_pressure_low and battery_degradation are CRITICAL,                 *)
(* high_speed_stress is WARNING.                                           *)
C13_SeverityAndTimestamp ==
    analysis.done =>
        \A i \in 1..Len(analysis.alerts) :
            LET a == analysis.alerts[i]
            IN  /\ a.timestamp = telemetry.timestamp
                /\ a.alert_type \in {"tire_pressure_low",
                                     "battery_degradation",
                                     "high_speed_stress"}
                /\ a.alert_type = "tire_pressure_low"
                       => a.severity = "CRITICAL"
                /\ a.alert_type = "battery_degradation"
                       => a.severity = "CRITICAL"
                /\ a.alert_type = "high_speed_stress"
                       => a.severity = "WARNING"

(* A call that returns alerts of the three rules, on a store whose newest  *)
(* history entries carry another timestamp than the snapshot               *)
C13_Witness ==
    /\ analysis.done
    /\ \E i \in 1..Len(analysis.alerts) :
          /\ analysis.alerts[i].alert_type = "high_speed_stress"
          /\ analysis.alerts[i].severity = "WARNING"
    /\ \E i \in 1..Len(analysis.alerts) :
          /\ analysis.alerts[i].alert_type = "battery_degradation"
          /\ analysis.alerts[i].severity = "CRITICAL"
    /\ \E i \in 1..Len(analysis.alerts) :
          /\ analysis.alerts[i].alert_type = "tire_pressure_low"
          /\ analysis.alerts[i].severity = "CRITICAL"
    /\ LastOf(store.speed_history).timestamp # telemetry.timestamp
    /\ LastOf(store.battery_history).timestamp # telemetry.timestamp

-----------------------------------------------------------------------------
(* C14: analyze is total.  For every snapshot, values below zero and above *)
(* the ranges included, and every content of the histories, the empty      *)
(* history included, the call raises nothing and returns a list, possibly  *)
(* empty, of at most six alerts of the three rules.                        *)
C14_AnalyzeTotal ==
    analysis.done =>
        /\ ~analysis.raised
        /\ Len(analysis.alerts) <= 6
        /\ \A i \in 1..Len(analysis.alerts) :
               /\ analysis.alerts[i].alert_type \in
                      {"tire_pressure_low", "battery_degradation",
                       "high_speed_stress"}
               /\ analysis.alerts[i].value \in
                      TiresOf(telemetry) \cup {telemetry.soc, telemetry.speed}

(* A call on a snapshot of negative values with an empty battery history,  *)
(* which returns normally                                                  *)
C14_Witness ==
    /\ analysis.done
    /\ ~analysis.raised
    /\ telemetry.speed < 0
    /\ telemetry.soc < 0
    /\ telemetry.front_left < 0
    /\ store.battery_history = << >>
    /\ Len(TireAlertsFor(analysis.alerts, "tire_pressure_fl")) = 1

(* C15: analyze has no side effect.  A call leaves the store (histories,   *)
(* latest snapshot, alert log) and the snapshot it was given unchanged,    *)
(* and a second call on the same snapshot and store returns the same       *)
(* alerts.                                                                 *)
C15_AnalyzeNoSideEffect ==
    [][AnalyzeCall =>
          /\ store' = store
          /\ telemetry' = telemetry
          /\ analysis.done => analysis'.alerts = analysis.alerts]_vars

(* A call has returned alerts and the store holds none of them, nor the    *)
(* snapshot                                                                *)
C15_Witness ==
    /\ analysis.done
    /\ Len(analysis.alerts) >= 2
    /\ store.alerts = << >>
    /\ store.telemetry = DefaultTelemetry
    /\ Len(store.battery_history) = BATTERY_MIN_HISTORY
    /\ Len(store.speed_history) = SPEED_WINDOW

-----------------------------------------------------------------------------
(* The read endpoints of backend/api/vehicle_routes.py.  A handler holds   *)
(* no await: it runs from the request to its return in one step, and the   *)
(* variable read holds its response until the response is sent.            *)

ReadLimits == {1, 50, 200}

Reverse(s) == [i \in 1..Len(s) |-> s[Len(s) - i + 1]]

(* DataStore.get_alerts(limit): the limit most recent alerts, newest first *)
GetAlerts(st, limit) == Reverse(Suffix(st.alerts, Min(limit, Len(st.alerts))))

Response(endpoint, body) == [endpoint |-> endpoint, body |-> body]

ReadFrame ==
    UNCHANGED <<running, tick_count, task, phys, store, taskState, cancelReq,
                stopWait, clock, ret, telemetry, analysis, run_ticks, app, maps,
          added>>

GetSpeedCall ==
    /\ read' = Response("speed",
           [speed |-> store.telemetry.speed, unit |-> "km/h",
            timestamp |-> store.telemetry.timestamp])
    /\ ReadFrame

GetBatteryCall ==
    /\ read' = Response("battery",
           [soc |-> store.telemetry.soc,
            voltage |-> store.telemetry.voltage,
            temperature |-> store.telemetry.temperature,
            health_status |-> store.telemetry.health_status])
    /\ ReadFrame

GetTirePressureCall ==
    /\ read' = Response("tire-pressure",
           [front_left |-> store.telemetry.front_left,
            front_right |-> store.telemetry.front_right,
            rear_left |-> store.telemetry.rear_left,
            rear_right |-> store.telemetry.rear_right])
    /\ ReadFrame

GetAllTelemetryCall ==
    /\ read' = Response("all", store.telemetry)
    /\ ReadFrame

(* The route without its limit: the whole log is returned *)
GetAlertsCallNoLimit(limit) ==
    /\ read' = Response("alerts", GetAlerts(store, Len(store.alerts)))
    /\ ReadFrame

(* The route as a consuming read: the returned alerts leave the log *)
GetAlertsCallDrains(limit) ==
    /\ read' = Response("alerts", GetAlerts(store, limit))
    /\ store' = [store EXCEPT !.alerts =
           SubSeq(@, 1, Len(@) - Min(limit, Len(@)))]
    /\ UNCHANGED <<running, tick_count, task, phys, taskState, cancelReq,
                   stopWait, clock, ret, telemetry, analysis, run_ticks,
                   app, maps,
          added>>

GetAlertsCall(limit) ==
    /\ read' = Response("alerts", GetAlerts(store, limit))
    /\ ReadFrame

ResponseSent ==
    /\ read # NoRead
    /\ read' = NoRead
    /\ ReadFrame

ReadCall ==
    \/ GetSpeedCall
    \/ GetBatteryCall
    \/ GetTirePressureCall
    \/ GetAllTelemetryCall
    \/ \E limit \in ReadLimits : GetAlertsCall(limit)

-----------------------------------------------------------------------------
(* One long run: the simulator is constructed, started once and left to    *)
(* run for MaxLongClock - 1 ticks, while clients read.  The draws of a     *)
(* tick are those of Calm, or at the ticks of BranchTicks (the first       *)
(* ticks, the first and the last tick of the first plateau) those of Calm  *)
(* or of Faulty, with the blown tire changing from tick to tick.           *)

MaxLongClock == 66

BranchTicks == {1, 2, 3, 4, 50, 64}

TireNames == <<"fl", "fr", "rl", "rr">>

FaultyAt(tc) == [Faulty EXCEPT !.tire_choice = TireNames[(tc % 4) + 1]]

LongDrawsAt(tc) ==
    IF tc \in BranchTicks THEN {Calm, FaultyAt(tc)} ELSE {Calm}

LongStart == read = NoRead /\ ~running /\ StartNewRun

LongLoopStep ==
    /\ read = NoRead
    /\ clock < MaxLongClock
    /\ \E i \in Tasks : \E d \in LongDrawsAt(tick_count + 1) : LoopStep(i, d)

NextLong ==
    \/ LongStart
    \/ LongLoopStep
    \/ ReadCall
    \/ ResponseSent

SpecLong == Init /\ [][NextLong]_vars

-----------------------------------------------------------------------------
(* Properties of the long run *)

PlateauSpeed(v) == v >= 10500 /\ v <= 13000

LastTen(h) == SubSeq(h, Len(h) - 9, Len(h))

(* C16: the plateau.  On every tick with tick_count > 20 and tick_count    *)
(* mod 50 < 15 the emitted speed lies in [105, 130]; on the first 20 ticks *)
(* of a run no plateau is applied (the speed moves by at most 5 km/h from  *)
(* that of the tick before); and in an uninterrupted run a plateau covers  *)
(* at least 10 consecutive ticks: at its last tick (tick_count mod 50 =    *)
(* 14) the ten newest recorded speeds all lie in [105, 130].               *)
C16_PlateauRule ==
    /\ []((Emitted(telemetry) /\ tick_count > 20 /\ tick_count % 50 < 15)
             => PlateauSpeed(telemetry.speed))
    /\ [][(telemetry' # telemetry /\ tick_count' <= 20)
             => /\ phys'.speed - phys.speed <= 500
                /\ phys.speed - phys'.speed <= 500]_vars
    /\ []((tick_count > 20 /\ tick_count % 50 = 14)
             => /\ Len(store.speed_history) >= 10
                /\ \A i \in 1..10 :
                       PlateauSpeed(LastTen(store.speed_history)[i].speed))

(* The last tick of the first plateau, drawn at the low end of the range   *)
(* after ticks drawn at its high end                                       *)
C16_Witness ==
    /\ run_ticks = 64
    /\ tick_count = 64
    /\ telemetry.speed = 10500
    /\ store.speed_history[9].speed = 13000
    /\ store.speed_history[1].speed = 13000

(* C17: in a run that is started and not stopped a high_speed_stress alert *)
(* is in the log once the run has made the tenth tick of its first plateau *)
(* (tick 59), whatever the draws.                                          *)
C17_SpeedAlertByTick59 ==
    (running /\ run_ticks >= 59)
        => OfType(store.alerts, "high_speed_stress") # << >>

(* A run that stood still until the plateau: its first high_speed_stress   *)
(* alert is that of tick 59                                                *)
C17_Witness ==
    /\ running
    /\ run_ticks = 59
    /\ Len(OfType(store.alerts, "high_speed_stress")) = 1
    /\ OfType(analysis.alerts, "high_speed_stress") # << >>
    /\ store.speed_history[1].speed > 10000

(* C18: the alert log and get_alerts.  The log never holds more than its   *)
(* cap; the alerts of a tick are appended newest last, the oldest alerts   *)
(* leaving first when the cap is exceeded; get_alerts(limit) returns       *)
(* min(limit, length of the log) alerts, the most recently appended ones,  *)
(* most recent first.                                                      *)
C18_BoundedAlertLog ==
    /\ [](Len(store.alerts) <= ALERT_LOG_CAP)
    /\ [][telemetry' # telemetry =>
             LET all == store.alerts \o analysis'.alerts
             IN  store'.alerts =
                     Suffix(all, Min(Len(all), ALERT_LOG_CAP))]_vars
    /\ [][\A limit \in ReadLimits : GetAlertsCall(limit) =>
             /\ read'.endpoint = "alerts"
             /\ Len(read'.body) = Min(limit, Len(store.alerts))
             /\ Len(read'.body) <= limit
             /\ \A i \in 1..Len(read'.body) :
                    read'.body[i] = store.alerts[Len(store.alerts) - i + 1]]_vars

(* The log is full and has lost the alerts of the first ticks, and a read  *)
(* with limit 50 has returned the 50 newest, newest first                  *)
C18_Witness ==
    /\ Len(store.alerts) = ALERT_LOG_CAP
    /\ store.alerts[1].timestamp > 5
    /\ read.endpoint = "alerts"
    /\ Len(read.body) = 50
    /\ read.body[1] = LastOf(store.alerts)
    /\ read.body[1].timestamp > read.body[50].timestamp

HistoryWindow(h, cap) ==
    /\ Len(h) = Min(run_ticks, cap)
    /\ \A i \in 1..Len(h) :
           h[i].timestamp = telemetry.timestamp - (Len(h) - i)

(* C19: the history buffers.  Each buffer holds at most its capacity; a    *)
(* tick appends its entry last and, when the capacity is exceeded, the     *)
(* oldest entry leaves; so each buffer holds, oldest first, exactly the    *)
(* entries of the most recent ticks.                                       *)
C19_BoundedFifoHistory ==
    /\ [](/\ Len(store.speed_history) <= SPEED_HISTORY_CAP
          /\ Len(store.battery_history) <= BATTERY_HISTORY_CAP
          /\ HistoryWindow(store.speed_history, SPEED_HISTORY_CAP)
          /\ HistoryWindow(store.battery_history, BATTERY_HISTORY_CAP))
    /\ [][telemetry' # telemetry =>
             LET sp == Append(store.speed_history,
                              [timestamp |-> telemetry'.timestamp,
                               speed |-> telemetry'.speed])
                 bat == Append(store.battery_history,
                               [timestamp |-> telemetry'.timestamp,
                                soc |-> telemetry'.soc])
             IN  /\ store'.speed_history =
                        Suffix(sp, Min(Len(sp), SPEED_HISTORY_CAP))
                 /\ store'.battery_history =
                        Suffix(bat, Min(Len(bat), BATTERY_HISTORY_CAP))]_vars

(* Both buffers are full and have lost entries: the entries of the first   *)
(* ticks are gone, the newest one is the last snapshot's                   *)
C19_Witness ==
    /\ run_ticks = 40
    /\ Len(store.speed_history) = SPEED_HISTORY_CAP
    /\ Len(store.battery_history) = BATTERY_HISTORY_CAP
    /\ store.battery_history[1].timestamp = 12
    /\ store.speed_history[1].timestamp = 32
    /\ LastOf(store.battery_history).soc = telemetry.soc

(* C20: reads are idempotent.  A read changes nothing but its response     *)
(* (not the snapshot, the histories, the alert log or the simulator), and  *)
(* a read that follows a read of the same endpoint with no tick and no     *)
(* start or stop in between returns the same response.                     *)
C20_IdempotentReads ==
    /\ [][(read'.endpoint # "none" /\ read' # read) =>
             /\ store' = store
             /\ phys' = phys
             /\ telemetry' = telemetry
             /\ <<running, tick_count, task, clock, run_ticks>>' =
                    <<running, tick_count, task, clock, run_ticks>>]_vars
    /\ [][/\ (read.endpoint = "speed" /\ GetSpeedCall) => read' = read
          /\ (read.endpoint = "battery" /\ GetBatteryCall) => read' = read
          /\ (read.endpoint = "tire-pressure" /\ GetTirePressureCall)
                 => read' = read
          /\ (read.endpoint = "all" /\ GetAllTelemetryCall) => read' = read
          /\ \A limit \in ReadLimits :
                 (/\ read.endpoint = "alerts"
                  /\ Len(read.body) = Min(limit, Len(store.alerts))
                  /\ GetAlertsCall(limit)) => read' = read]_vars

(* A response to a read of the alerts made during the run, after the read  *)
(* of another endpoint was answered from the same snapshot                 *)
C20_Witness ==
    /\ running
    /\ tick_count = 5
    /\ read.endpoint = "alerts"
    /\ Len(read.body) = 1
    /\ read.body[1].timestamp = store.telemetry.timestamp
    /\ Len(store.alerts) > 1

-----------------------------------------------------------------------------
(* Tick accounting *)

(* C21: each loop iteration increments tick_count by exactly 1 and         *)
(* produces exactly one snapshot (one clock reading, one entry in each     *)
(* history); at every suspension point the stored status tick_count, the   *)
(* simulator's tick_count and the number of snapshots generated since the  *)
(* last effective start() are equal; and a step that is not a loop         *)
(* iteration or a start (a stop() call, its resumption, the cancellation   *)
(* of a task) changes neither tick_count nor the snapshot.                 *)
C21_TickAccounting ==
    /\ [](/\ store.simulation.tick_count = tick_count
          /\ tick_count = run_ticks)
    /\ [][telemetry' # telemetry =>
             /\ tick_count' = tick_count + 1
             /\ run_ticks' = run_ticks + 1
             /\ clock' = clock + 1
             /\ telemetry'.timestamp = clock'
             /\ store'.telemetry = telemetry'
             /\ Len(store'.battery_history) =
                    Len(store.battery_history) + 1
             /\ Len(store'.speed_history) = Len(store.speed_history) + 1]_vars
    /\ [][tick_count' # tick_count =>
             \/ telemetry' # telemetry
             \/ (tick_count' = 0 /\ ret'.call = "start" /\ ~running)]_vars
    /\ [][(ret' # ret /\ ret'.call = "stop") =>
             /\ tick_count' = tick_count
             /\ telemetry' = telemetry
             /\ ret'.status.tick_count = tick_count]_vars

(* A stop() has returned after a run of two ticks whose loop task it       *)
(* cancelled at its sleep                                                  *)
C21_Witness ==
    /\ ret.call = "stop"
    /\ ret.status.message = Message("Simulator stopped after", 2)
    /\ ~running
    /\ tick_count = 2
    /\ run_ticks = 2
    /\ store.simulation.tick_count = 2
    /\ Len(store.battery_history) = 2
    /\ \E k \in Tasks : taskState[k] = "done" /\ k \in cancelReq

-----------------------------------------------------------------------------
(* Orchestration order *)

AlertRank(a) ==
    CASE a.signal = "tire_pressure_fl" -> 1
      [] a.signal = "tire_pressure_fr" -> 2
      [] a.signal = "tire_pressure_rl" -> 3
      [] a.signal = "tire_pressure_rr" -> 4
      [] a.alert_type = "battery_degradation" -> 5
      [] a.alert_type = "high_speed_stress" -> 6

(* C22: within a tick the snapshot is generated, stored with its history   *)
(* entries, analysed against the store that holds it, and the alerts are   *)
(* appended: the alerts of a tick are those of the rules evaluated on the  *)
(* store as the tick leaves it, they carry the timestamp of the stored     *)
(* snapshot, and in the log the alerts are in the order of their           *)
(* snapshots and, within one snapshot, in the order tire FL, FR, RL, RR,   *)
(* battery, speed.                                                         *)
C22_OrchestrationOrder ==
    /\ [][telemetry' # telemetry =>
             /\ store'.telemetry = telemetry'
             /\ LastOf(store'.speed_history).timestamp = telemetry'.timestamp
             /\ LastOf(store'.battery_history).timestamp
                    = telemetry'.timestamp
             /\ analysis'.alerts = Analyze(store'.telemetry, store')
             /\ Len(OfType(analysis'.alerts, "battery_degradation")) =
                    IF R2Holds(telemetry', store') THEN 1 ELSE 0
             /\ Len(OfType(analysis'.alerts, "high_speed_stress")) =
                    IF R3Holds(store') THEN 1 ELSE 0
             /\ Suffix(store'.alerts, Len(analysis'.alerts))
                    = analysis'.alerts
             /\ \A i \in 1..Len(analysis'.alerts) :
                    analysis'.alerts[i].timestamp
                        = store'.telemetry.timestamp]_vars
    /\ [](\A i \in 1..(Len(store.alerts) - 1) :
             LET a == store.alerts[i]
                 b == store.alerts[i + 1]
             IN  \/ a.timestamp < b.timestamp
                 \/ /\ a.timestamp = b.timestamp
                    /\ AlertRank(a) < AlertRank(b))

(* A tick that logged six alerts, one of every tire, the battery alert and *)
(* the speed alert, in this order                                          *)
C22_Witness ==
    /\ Len(analysis.alerts) = 6
    /\ Suffix(store.alerts, 6) = analysis.alerts
    /\ analysis.alerts[1].signal = "tire_pressure_fl"
    /\ analysis.alerts[4].signal = "tire_pressure_rr"
    /\ analysis.alerts[5].alert_type = "battery_degradation"
    /\ analysis.alerts[6].alert_type = "high_speed_stress"
    /\ analysis.alerts[6].timestamp = store.telemetry.timestamp

-----------------------------------------------------------------------------
(* C23: in every emitted snapshot health_status agrees with the snapshot's *)
(* own one-decimal SoC: Low iff soc < 20, Fair iff 20 <= soc < 50, Good    *)
(* otherwise.                                                              *)
C23_HealthAgreesWithSoc ==
    Emitted(telemetry) =>
        /\ telemetry.health_status = "Low" <=> telemetry.soc < 2000
        /\ telemetry.health_status = "Fair" <=>
               (telemetry.soc >= 2000 /\ telemetry.soc < 5000)
        /\ telemetry.health_status = "Good" <=> telemetry.soc >= 5000

-----------------------------------------------------------------------------
(* C25: status and loop agree.  Whenever no start() or stop() call is in   *)
(* progress, the stored status's running equals the simulator's running    *)
(* flag, a loop task is alive iff the simulator is running, and the        *)
(* simulator holds the handle of the live task.                            *)
C25_StatusLoopAgreement ==
    stopWait = {} =>
        /\ store.simulation.running = running
        /\ LiveTasks # {} <=> running
        /\ running => (task # None /\ task \in LiveTasks)

-----------------------------------------------------------------------------
(* Application shutdown (backend/main.py).  shutdown_event runs once, when *)
(* the server has finished the requests in flight and accepts no more; it  *)
(* calls stop() if the simulator is running and is suspended with it at    *)
(* stop()'s await.  It has completed once app = "shutdown" and no stop()   *)
(* is suspended.                                                           *)

ShutdownEvent ==
    /\ app = "serving"
    /\ stopWait = {}
    /\ app' = "shutdown"
    /\ IF running
       THEN /\ running' = FALSE
            /\ IF task # None /\ Pending(task)
               THEN /\ cancelReq' = cancelReq \cup {task}
                    /\ stopWait' = stopWait \cup {task}
                    /\ UNCHANGED <<task, store, ret>>
               ELSE /\ task' = None
                    /\ store' = [store EXCEPT !.simulation = StoppedStatus]
                    /\ ret' = Returned("stop", StoppedStatus)
                    /\ UNCHANGED <<cancelReq, stopWait>>
       ELSE UNCHANGED <<running, task, store, ret, cancelReq, stopWait>>
    /\ UNCHANGED <<tick_count, phys, taskState, clock, telemetry, analysis,
                   run_ticks, read, maps, added>>

ShutdownComplete == app = "shutdown" /\ stopWait = {}

NextShutdown ==
    \/ app = "serving" /\ Start
    \/ app = "serving" /\ Stop
    \/ \E k \in Tasks : StopResume(k)
    \/ \E i \in Tasks : \E d \in RunDraws :
          (running => clock < MaxClock) /\ LoopStep(i, d)
    \/ \E i \in Tasks : LoopCancelled(i)
    \/ ShutdownEvent

SpecShutdown == Init /\ [][NextShutdown]_vars

(* C30: on shutdown a Running simulator is stopped: once shutdown_event    *)
(* has completed the simulator is not running and no loop task is alive;   *)
(* and the shutdown of a Stopped simulator changes nothing.                *)
C30_ShutdownStops ==
    /\ [](ShutdownComplete => (~running /\ LiveTasks = {}))
    /\ [][(app = "serving" /\ app' = "shutdown" /\ ~running) =>
             UNCHANGED <<running, tick_count, task, phys, store, taskState,
                         cancelReq, stopWait, clock, ret, telemetry,
                         analysis, run_ticks, read, maps, added>>]_vars

-----------------------------------------------------------------------------
(***************************************************************************)
(* Stop/start cycles of long runs.  The draws are a steady heavy gradual   *)
(* drain without a rapid drop (Cruise), except on the first two ticks of a *)
(* run, where the faulty draws are possible too; stop() is requested only  *)
(* when the run has made one of the StopTicks iterations, and start() only *)
(* when no stop() is still waiting for its task.                           *)
(***************************************************************************)
MaxCycleClock == 37

StopTicks == {3, 32}

Cruise == [Calm EXCEPT !.drain = 19]

CycleDrawsAt(tc) == IF tc \in {1, 2} THEN {Cruise, FaultyAt(tc)} ELSE {Cruise}

CycleStart ==
    /\ ~running
    /\ stopWait = {}
    /\ clock < MaxCycleClock
    /\ BeginRun

CycleStop ==
    /\ running
    /\ tick_count \in StopTicks
    /\ StopRunning

CycleLoopStep ==
    /\ running => clock < MaxCycleClock
    /\ \E i \in Tasks : \E d \in CycleDrawsAt(tick_count + 1) : LoopStep(i, d)

NextCycle ==
    \/ CycleStart
    \/ CycleStop
    \/ \E k \in Tasks : StopResume(k)
    \/ CycleLoopStep
    \/ \E i \in Tasks : LoopCancelled(i)

SpecCycle == Init /\ [][NextCycle]_vars

-----------------------------------------------------------------------------
(* Properties of the cycles *)

(* Some recorded battery entry was recorded by an earlier run *)
InLaterRun == run_ticks < Len(store.battery_history)

(* C24: the odometer never decreases, over the ticks of a run and across   *)
(* stop/start cycles.  Every tick adds that tick's speed (clamped, not      *)
(* negative) over 3600 to the odometer, and the one-decimal odometer of    *)
(* its snapshot is not smaller than that of the snapshot before, nor than  *)
(* the initial 15000.0; every other step (start, stop, cancellation)       *)
(* leaves the odometer and the last snapshot as they were.                 *)
C24_OdometerMonotone ==
    /\ [][tick_count' = tick_count + 1 =>
            /\ phys'.speed >= 0
            /\ phys'.odometer = phys.odometer + phys'.speed
            /\ telemetry'.odometer = RoundOdometer(phys'.odometer)
            /\ telemetry'.odometer >= ODOMETER_INIT
            /\ (Emitted(telemetry) =>
                    telemetry'.odometer >= telemetry.odometer)]_vars
    /\ [][tick_count' # tick_count + 1 =>
            /\ phys'.odometer = phys.odometer
            /\ telemetry' = telemetry]_vars

(* A tick of a later run whose snapshot shows more than 0.2 km travelled *)
C24_Witness ==
    /\ InLaterRun
    /\ run_ticks >= 1
    /\ running
    /\ phys.speed > 0
    /\ telemetry.odometer > ODOMETER_INIT + 20
    /\ telemetry.odometer = RoundOdometer(phys.odometer)

(* Two consecutive entries of the battery window that differ by a rapid    *)
(* drop (at least 5.0) rather than by a gradual step (at most 0.2)         *)
RapidDropInWindow(h) ==
    \E i \in 1..(Len(h) - 1) : h[i].soc - h[i + 1].soc >= BATTERY_DROP_THRESHOLD

(* C26: gradual drain alone never raises the battery alert.  Whenever the  *)
(* analysis of a tick returns a battery_degradation alert, the battery     *)
(* window (at most 30 entries, the current one included) contains a rapid  *)
(* drop.                                                                   *)
C26_GradualDrainNoAlert ==
    OfType(analysis.alerts, "battery_degradation") # << >> =>
        /\ Len(store.battery_history) <= BATTERY_HISTORY_CAP
        /\ RapidDropInWindow(store.battery_history)

(* C27: a stop() followed by a start() resets only the bookkeeping of the  *)
(* run.  The start() sets tick_count to 0 and stores a new status with a   *)
(* new start_time; it and the stop() before it (with its resumption and    *)
(* the cancellation of the task) leave the physical state, the two history *)
(* buffers, the alert log and the last snapshot unchanged; and the first   *)
(* tick of the new run continues from that physical state and is analysed  *)
(* against the histories recorded by the run before.                       *)
C27_RestartKeepsState ==
    /\ [][(~running /\ running') =>
            /\ tick_count' = 0
            /\ store'.simulation =
                   SimulationStatus(TRUE, 0, clock + 1,
                                    Message("Simulator started", None))
            /\ store'.simulation.start_time # store.simulation.start_time
            /\ ret' = Returned("start", store'.simulation)
            /\ phys' = phys
            /\ telemetry' = telemetry
            /\ store' = [store EXCEPT !.simulation = store'.simulation]]_vars
    /\ [][tick_count' # tick_count + 1 =>
            /\ phys' = phys
            /\ telemetry' = telemetry
            /\ store' = [store EXCEPT !.simulation = store'.simulation]]_vars
    /\ [][(tick_count = 0 /\ tick_count' = 1) =>
            /\ \E d \in CycleDrawsAt(1) : phys' = NextPhys(phys, 1, d)
            /\ store'.speed_history =
                   Bounded(Append(store.speed_history,
                                  LastOf(store'.speed_history)),
                           SPEED_HISTORY_CAP)
            /\ store'.battery_history =
                   Bounded(Append(store.battery_history,
                                  LastOf(store'.battery_history)),
                           BATTERY_HISTORY_CAP)
            /\ analysis'.alerts = Analyze(telemetry', store')]_vars

(* The first tick of a later run raises the speed alert and the battery    *)
(* alert, both from entries recorded by the run before                     *)
C27_Witness ==
    /\ InLaterRun
    /\ running
    /\ tick_count = 1
    /\ run_ticks = 1
    /\ phys.odometer > 0
    /\ OfType(analysis.alerts, "high_speed_stress") # << >>
    /\ OfType(analysis.alerts, "battery_degradation") # << >>

-----------------------------------------------------------------------------
(* Battery properties of the generator *)

HealthRank(h) == CASE h = "Low" -> 0 [] h = "Fair" -> 1 [] h = "Good" -> 2

(* C28: the battery SoC never increases.  On every tick the SoC after the  *)
(* tick is at most the SoC before it, the snapshot carries that SoC        *)
(* rounded to one decimal, and against the snapshot of the tick before     *)
(* its soc is not larger and its health_status has not moved back (Low to  *)
(* Fair or Good, Fair to Good); a SoC at the lower clamp 5 stays at 5.     *)
C28_SocNeverIncreases ==
    [][tick_count' = tick_count + 1 =>
            /\ phys'.battery_soc <= phys.battery_soc
            /\ telemetry'.soc = Round1(phys'.battery_soc)
            /\ telemetry'.health_status = HealthStatus(phys'.battery_soc)
            /\ HealthRank(telemetry'.health_status)
                   <= HealthRank(HealthStatus(phys.battery_soc))
            /\ (Emitted(telemetry) =>
                    /\ telemetry'.soc <= telemetry.soc
                    /\ HealthRank(telemetry'.health_status)
                           <= HealthRank(telemetry.health_status))
            /\ (phys.battery_soc = SOC_MIN =>
                    /\ phys'.battery_soc = SOC_MIN
                    /\ telemetry'.soc = SOC_MIN
                    /\ telemetry'.health_status = "Low")]_vars

(* The second of two snapshots, with the SoC at the lower clamp *)
C28_Witness ==
    /\ run_ticks = 2
    /\ Emitted(telemetry)
    /\ phys.battery_soc = SOC_MIN
    /\ telemetry.soc = SOC_MIN
    /\ telemetry.health_status = "Low"

-----------------------------------------------------------------------------
(* C29: every high_speed_stress alert that the loop appends to the alert   *)
(* log reports a value strictly greater than 100.  The alert of a tick     *)
(* carries the speed of that tick's snapshot, which is the newest of the   *)
(* ten history entries the rule has just found above 100.                  *)
C29_SpeedAlertValueAboveThreshold ==
    /\ \A i \in 1..Len(store.alerts) :
          store.alerts[i].alert_type = "high_speed_stress" =>
              store.alerts[i].value > SPEED_THRESHOLD
    /\ \A i \in 1..Len(analysis.alerts) :
          analysis.alerts[i].alert_type = "high_speed_stress" =>
              /\ analysis.alerts[i].value = telemetry.speed
              /\ analysis.alerts[i].value =
                     LastOf(store.speed_history).speed
              /\ analysis.alerts[i].value > SPEED_THRESHOLD

(* A logged speed alert of a plateau tick that drew the smallest plateau   *)
(* speed, 105                                                              *)
C29_Witness ==
    /\ OfType(analysis.alerts, "high_speed_stress") # << >>
    /\ LastOf(store.alerts).alert_type = "high_speed_stress"
    /\ LastOf(store.alerts).value = telemetry.speed
    /\ LastOf(store.alerts).timestamp = telemetry.timestamp
    /\ InPlateau(tick_count)
    /\ telemetry.speed = Faulty.plateau

-----------------------------------------------------------------------------
(***************************************************************************)
(* The traceability mapper under add_mapping calls, with the reads of the  *)
(* map (GET /traceability/map, which returns get_map()) and get_latest.    *)
(* Blueprints are dictionaries with any of the keys "signals", "services"  *)
(* and "ui_components"; the signal lists include an empty list, repeated   *)
(* signals, the three signals of the widget map and names that take the    *)
(* title()/replace() path.                                                 *)
(***************************************************************************)
MaxMaps == 4

OIL_TEMP == <<"o", "i", "l", "_", "T", "e", "m", "p">>

RPM_2X == <<"r", "p", "m", "2", "x">>

SignalLists ==
    { << >>, <<SPEED>>, <<OIL_TEMP>>, <<SPEED, SPEED>>,
      <<OIL_TEMP, TIRE_PRESSURE>>, <<BATTERY_SOC, RPM_2X, SPEED>> }

Blueprints ==
    {[signals |-> l] : l \in SignalLists}
    \cup {[services |-> <<"health_monitoring">>],
          [ui_components |-> <<ALERT_BANNER>>],
          [signals |-> <<SPEED>>, services |-> <<"alert_service">>,
           ui_components |-> <<SPEED_GAUGE>>]}

AddMappingCalls ==
    {[requirement |-> "Monitor engine oil temperature", blueprint |-> b] :
        b \in Blueprints}
    \cup {[requirement |-> "", blueprint |-> [signals |-> <<OIL_TEMP>>]]}

MapperFrame ==
    UNCHANGED <<running, tick_count, task, phys, store, taskState, cancelReq,
                stopWait, clock, ret, telemetry, analysis, run_ticks, app>>

(* An add_mapping that inserts the new entry in front of the others *)
AddMappingInFront(requirement, blueprint) ==
    /\ read = NoRead
    /\ Len(maps) < MaxMaps
    /\ maps' = << NewMapping(requirement, blueprint) >> \o maps
    /\ added' = [requirement |-> requirement, blueprint |-> blueprint]
    /\ UNCHANGED read
    /\ MapperFrame

(* TraceabilityMapper.add_mapping *)
AddMapping(requirement, blueprint) ==
    /\ read = NoRead
    /\ Len(maps) < MaxMaps
    /\ maps' = Append(maps, NewMapping(requirement, blueprint))
    /\ added' = [requirement |-> requirement, blueprint |-> blueprint]
    /\ UNCHANGED read
    /\ MapperFrame

(* GET /traceability/map *)
GetTraceabilityMapCall ==
    /\ read' = Response("traceability/map", maps)
    /\ ReadFrame

(* TraceabilityMapper.get_latest *)
GetLatestCall ==
    /\ read' = Response("get_latest", GetLatest(maps))
    /\ ReadFrame

NextTrace ==
    \/ \E c \in AddMappingCalls : AddMapping(c.requirement, c.blueprint)
    \/ GetTraceabilityMapCall
    \/ GetLatestCall
    \/ ResponseSent

SpecTrace == Init /\ [][NextTrace]_vars

-----------------------------------------------------------------------------
(* Properties of the traceability map *)

(* C31: the traceability map is append-only.  It always holds at least one *)
(* entry and its first entry is always the default system mapping; every   *)
(* add_mapping call appends exactly one entry at the end and leaves the    *)
(* entries before it as they were; the new entry carries the call's        *)
(* requirement and, for each signal of the blueprint in order, one         *)
(* extracted_signals item and one generated_apis item (the item's          *)
(* api_endpoint); get_latest returns the last entry and the map endpoint   *)
(* the whole map.                                                          *)
C31_MapAppendOnly ==
    /\ [](/\ Len(maps) >= 1
          /\ maps[1] = DefaultMapping
          /\ (read.endpoint = "get_latest" => read.body = maps[Len(maps)])
          /\ (read.endpoint = "traceability/map" => read.body = maps))
    /\ [][maps' # maps =>
            /\ Len(maps') = Len(maps) + 1
            /\ SubSeq(maps', 1, Len(maps)) = maps
            /\ LET entry == maps'[Len(maps')]
                   signals == BlueprintGet(added'.blueprint, "signals")
               IN  /\ entry.requirement = added'.requirement
                   /\ Len(entry.extracted_signals) = Len(signals)
                   /\ Len(entry.generated_apis) = Len(signals)
                   /\ \A i \in 1..Len(signals) :
                         /\ entry.extracted_signals[i].signal = signals[i]
                         /\ entry.generated_apis[i] =
                                entry.extracted_signals[i].api_endpoint]_vars

(* get_latest after three add_mapping calls: it returns the entry of the   *)
(* last call (three signals), the entry before it has a repeated signal    *)
(* and the first entry is the default mapping                              *)
C31_Witness ==
    /\ Len(maps) = 4
    /\ maps[1] = DefaultMapping
    /\ Len(maps[2].extracted_signals) = 0
    /\ maps[3].generated_apis = <<GET_SPEED, GET_SPEED>>
    /\ added.blueprint = [signals |-> <<BATTERY_SOC, RPM_2X, SPEED>>]
    /\ read.endpoint = "get_latest"
    /\ read.body = maps[4]
    /\ Len(read.body.extracted_signals) = 3
    /\ read.body.extracted_signals[2].ui_component =
           <<"R", "p", "m", "2", "X", "C", "a", "r", "d">>
    /\ read.body.extracted_signals[1].ui_component = BATTERY_INDICATOR
    /\ read.body.generated_apis[1] = GET_BATTERY \o <<"-", "s", "o", "c">>

-----------------------------------------------------------------------------
(***************************************************************************)
(* GET /vehicle/alerts as a request: the query parameter                   *)
(* "limit: Optional[int] = Query(50, ge=1, le=200)" is validated before    *)
(* the handler runs.  A request carries a limit or omits it; the response  *)
(* records the request it answers (given, limit), its HTTP status and its  *)
(* body.                                                                   *)
(***************************************************************************)
DEFAULT_LIMIT == 50
LIMIT_GE == 1
LIMIT_LE == 200

RequestLimits == {-1, 0, 1, 200, 201}

(* Query(..., ge=1) without its upper bound *)
LimitAcceptedNoUpper(limit) == limit >= LIMIT_GE

LimitAccepted(limit) == limit >= LIMIT_GE /\ limit <= LIMIT_LE

AlertsResponse(given, limit, status, body) ==
    [endpoint |-> "alerts", given |-> given, limit |-> limit,
     status |-> status, body |-> body]

(* The request with ?limit=<limit> *)
GetAlertsRequest(limit) ==
    /\ read' = IF LimitAccepted(limit)
               THEN AlertsResponse(TRUE, limit, 200, GetAlerts(store, limit))
               ELSE AlertsResponse(TRUE, limit, 422, None)
    /\ ReadFrame

(* The request without a limit *)
GetAlertsRequestNoLimit ==
    /\ read' = AlertsResponse(FALSE, DEFAULT_LIMIT, 200,
                              GetAlerts(store, DEFAULT_LIMIT))
    /\ ReadFrame

NextAlerts ==
    \/ LongStart
    \/ LongLoopStep
    \/ \E limit \in RequestLimits : GetAlertsRequest(limit)
    \/ GetAlertsRequestNoLimit
    \/ ResponseSent

SpecAlerts == Init /\ [][NextAlerts]_vars

(* C32: the alerts endpoint bounds its limit.  A request with a limit      *)
(* below 1 or above 200 is answered with a validation error (422) whose    *)
(* body holds nothing of the store; a request without a limit is served    *)
(* with limit 50; an accepted request has a limit within [1, 200] and      *)
(* returns at most limit alerts, the most recent ones of the log, newest   *)
(* first; and no request (a step that is neither a start nor a tick)       *)
(* changes the store.                                                      *)
C32_AlertsLimitBounded ==
    /\ []((read.endpoint = "alerts" /\ "status" \in DOMAIN read) =>
            /\ ((read.given /\ (read.limit < 1 \/ read.limit > 200)) =>
                    (read.status = 422 /\ read.body = None))
            /\ (~read.given => (read.status = 200 /\ read.limit = 50))
            /\ (read.status = 200 =>
                    /\ read.limit >= 1 /\ read.limit <= 200
                    /\ Len(read.body) <= read.limit
                    /\ Len(read.body) = Min(read.limit, Len(store.alerts))
                    /\ read.body = GetAlerts(store, read.limit))
            /\ read.status \in {200, 422})
    /\ [][(tick_count' = tick_count /\ running' = running) =>
            store' = store]_vars

(* A request without a limit answered with 50 alerts out of a longer log *)
C32_Witness ==
    /\ read.endpoint = "alerts"
    /\ "status" \in DOMAIN read
    /\ ~read.given
    /\ read.status = 200
    /\ Len(store.alerts) > 50
    /\ Len(read.body) = 50
    /\ read.body[1] = LastOf(store.alerts)

=============================================================================
